---- MODULE Spec2Model ----
(***************************************************************************)
(* Model of the desktop utilities of this repository:                      *)
(*   - the photo-album manager (src/album_manager.py): the SQLite store    *)
(*     behind DatabaseManager and the widget state of AlbumManager;        *)
(*   - the PySide6 training launcher (src/Yolo5Pyside6.py): the UI thread, *)
(*     the TrainThread worker, the training subprocess, the path fields    *)
(*     and the platform (os.name) the launcher runs on.                    *)
(* Strings are numbered: name 0 is the empty string, id 0 is Python None.  *)
(***************************************************************************)
EXTENDS Integers, Sequences, FiniteSets, TLC

----------------------------------------------------------------------------
(* Bounds of the album manager model *)

MaxNames == 2
MaxAlbumId == 3
MaxImageId == 2
MaxClock == 3
MaxNotes == 1
MaxFiles == 2

Names == 1..MaxNames
NoName == 0
None == 0

VARIABLES
    (* album manager: the database *)
    albums,            \* table albums: id -> [name, create_time, modify_time, notes]
    images,            \* table images: id -> album_id
    album_seq,         \* sqlite_sequence of albums (AUTOINCREMENT)
    image_seq,         \* sqlite_sequence of images (AUTOINCREMENT)
    now,               \* datetime.now()
    (* album manager: the window *)
    constructed,       \* AlbumManager.__init__ has run
    album_list,        \* QListWidget: sequence of [text, id]
    currentRow,        \* album_list.currentRow(), 1-based, 0 for Qt's -1
    current_album_id,  \* self.current_album_id, 0 for None
    current_album_label, \* name shown in the title, 0 for the bare title
    create_time_label,
    modify_time_label,
    image_count_label,
    notes_edit,
    grid,              \* image ids of the ImageWidgets in grid_layout
    selected,          \* image ids of the ImageWidgets with is_selected
    dialog,            \* message box raised by the last handler
    last,              \* the last handler that ran, with its inputs and result
    commits,           \* the commits of the last handler: for each conn.commit()
                       \* the data-modifying statements of its transaction
    (* PySide6 training launcher *)
    train_btn,         \* train_btn.isEnabled()
    stop_btn,          \* stop_btn.isEnabled()
    log_output,        \* the entries of the log view
    train_thread,      \* self.train_thread: a run number, 0 for None
    threads,           \* run -> the TrainThread object and its position in run()
    procs,             \* run -> the training subprocess of that run
    queue,             \* worker signals posted to the UI thread, oldest first
    timer,             \* pending QTimer.singleShot(0, _safe_stop_training)
    ui_pc,             \* position of the UI thread: idle or inside a handler
    message_box,       \* message box raised by the last launcher handler
    tlast,             \* the last launcher step, with its inputs
    line_edits,        \* path group -> the text of the QLineEdit inside it
    line_edit,         \* self.line_edit: the group whose QLineEdit it refers to
    os_name,           \* os.name of the platform the launcher runs on
    launcher_sigint    \* the launcher process itself was sent SIGINT

dbvars == <<albums, images, album_seq, image_seq, now>>
detailvars == <<current_album_label, create_time_label, modify_time_label,
                image_count_label, notes_edit>>
uivars == <<constructed, album_list, currentRow, current_album_id,
            current_album_label, create_time_label, modify_time_label,
            image_count_label, notes_edit, grid, selected>>
albumvars == <<albums, images, album_seq, image_seq, now, constructed,
               album_list, currentRow, current_album_id, current_album_label,
               create_time_label, modify_time_label, image_count_label,
               notes_edit, grid, selected, dialog, last, commits>>

pathvars == <<line_edits, line_edit>>
envvars == <<os_name, launcher_sigint>>
trainvars == <<train_btn, stop_btn, log_output, train_thread, threads, procs,
               queue, timer, ui_pc, message_box, tlast, pathvars, envvars>>
vars == <<albumvars, trainvars>>

----------------------------------------------------------------------------
(* DatabaseManager *)

Row(name, ct, mt, notes) ==
    [name |-> name, create_time |-> ct, modify_time |-> mt, notes |-> notes]

\* a UNIQUE constraint that is not enforced
UniqueNameOff(albs, id, name) == TRUE

\* name TEXT NOT NULL UNIQUE: may row id carry this name
UniqueName(albs, id, name) ==
    \A i \in DOMAIN albs : i # id => albs[i].name # name

\* INSERT INTO albums; the table after create_album(name) at time t
create_album_rows(albs, seq, name, t) ==
    IF UniqueName(albs, seq + 1, name)
    THEN [i \in DOMAIN albs \cup {seq + 1} |->
            IF i = seq + 1 THEN Row(name, t, t, 0) ELSE albs[i]]
    ELSE albs

\* a create_album that returns lastrowid whatever the INSERT did
create_album_result_lastrowid(albs, seq, name) == seq + 1

\* lastrowid, or None on sqlite3.IntegrityError
create_album_result(albs, seq, name) ==
    IF UniqueName(albs, seq + 1, name) THEN seq + 1 ELSE None

\* a delete that relies on the cascade, which SQLite does not run by default
delete_album_images_cascade_only(imgs, album_id) == imgs

\* DELETE FROM albums WHERE id = ?
delete_album_rows(albs, album_id) ==
    [i \in DOMAIN albs \ {album_id} |-> albs[i]]

\* DELETE FROM images WHERE album_id = ?
delete_album_images(imgs, album_id) ==
    [i \in {j \in DOMAIN imgs : imgs[j] # album_id} |-> imgs[i]]

\* UPDATE albums SET notes = ?, modify_time = ? WHERE id = ?
update_album_notes(albs, album_id, notes, t) ==
    [i \in DOMAIN albs |->
        IF i = album_id THEN [albs[i] EXCEPT !.notes = notes, !.modify_time = t]
        ELSE albs[i]]

\* SELECT ... FROM albums, in rowid order
RECURSIVE AlbumsFrom(_, _, _)
AlbumsFrom(albs, i, top) ==
    IF i > top THEN <<>>
    ELSE IF i \in DOMAIN albs
         THEN <<[text |-> albs[i].name, id |-> i]>> \o AlbumsFrom(albs, i + 1, top)
         ELSE AlbumsFrom(albs, i + 1, top)

get_all_albums(albs, top) == AlbumsFrom(albs, 1, top)

\* INSERT INTO images, n times; foreign keys are not enforced (no PRAGMA)
add_images(imgs, seq, album_id, n) ==
    [i \in DOMAIN imgs \cup (seq + 1)..(seq + n) |->
        IF i \in DOMAIN imgs THEN imgs[i] ELSE album_id]

\* DELETE FROM images WHERE id = ?, for each id of ids
delete_images(imgs, ids) ==
    [i \in DOMAIN imgs \ ids |-> imgs[i]]

\* SELECT ... FROM images WHERE album_id = ?
get_images(imgs, album_id) == {i \in DOMAIN imgs : imgs[i] = album_id}

\* SELECT COUNT(*) FROM images WHERE album_id = ?
get_image_count(imgs, album_id) == Cardinality(get_images(imgs, album_id))

\* UPDATE albums SET modify_time = ? WHERE id = ?
update_album_modify_time(albs, album_id, t) ==
    [i \in DOMAIN albs |->
        IF i = album_id THEN [albs[i] EXCEPT !.modify_time = t] ELSE albs[i]]

\* UPDATE albums SET name = ?, modify_time = ? WHERE id = ? (rename_album)
rename_rows(albs, album_id, name, t) ==
    [i \in DOMAIN albs |->
        IF i = album_id THEN [albs[i] EXCEPT !.name = name, !.modify_time = t]
        ELSE albs[i]]

\* conn.commit(): the open transaction, holding the statements stmts that
\* took effect since the last commit, becomes one commit
Commit(stmts) == <<stmts>>

\* initialize_database: the CREATE TABLE statements modify no data
initialize_database_commits == Commit(<<>>)

\* create_album: the commit is skipped when the INSERT raises IntegrityError
create_album_commits(albs, seq, name) ==
    IF UniqueName(albs, seq + 1, name) THEN Commit(<<"INSERT albums">>) ELSE <<>>

\* a delete_album that commits after each statement
delete_album_commits_each == Commit(<<"DELETE albums">>) \o Commit(<<"DELETE images">>)

\* delete_album: two DELETE statements, then one commit
delete_album_commits == Commit(<<"DELETE albums", "DELETE images">>)

update_album_notes_commits == Commit(<<"UPDATE albums">>)
update_album_modify_time_commits == Commit(<<"UPDATE albums">>)

\* add_image and delete_image, called once per file or image
RECURSIVE add_image_commits(_)
add_image_commits(n) ==
    IF n = 0 THEN <<>> ELSE Commit(<<"INSERT images">>) \o add_image_commits(n - 1)

RECURSIVE delete_image_commits(_)
delete_image_commits(n) ==
    IF n = 0 THEN <<>> ELSE Commit(<<"DELETE images">>) \o delete_image_commits(n - 1)

\* the UPDATE of rename_album: the commit is skipped on IntegrityError
rename_commits(albs, album_id, name) ==
    IF UniqueName(albs, album_id, name) THEN Commit(<<"UPDATE albums">>) ELSE <<>>

----------------------------------------------------------------------------
(* AlbumManager *)

\* select_album(item) after its assignment of current_album_id: the details
\* panel, the title and the image grid, read from the tables albs, imgs
select_album_panel(item, albs, imgs) ==
    /\ IF item.id \in DOMAIN albs
       THEN /\ create_time_label' = albs[item.id].create_time
            /\ modify_time_label' = albs[item.id].modify_time
            /\ image_count_label' = get_image_count(imgs, item.id)
            /\ notes_edit' = albs[item.id].notes
            /\ current_album_label' = albs[item.id].name
            /\ grid' = get_images(imgs, item.id)
            /\ selected' = {}
       ELSE UNCHANGED <<detailvars, grid, selected>>

\* the stored databases the program may be started on
InitDBs ==
    { [albums |-> <<>>, images |-> <<>>, album_seq |-> 0, image_seq |-> 0],
      [albums |-> (1 :> Row(1, 0, 0, 0)), images |-> (1 :> 1),
       album_seq |-> 1, image_seq |-> 1],
      [albums |-> (1 :> Row(1, 0, 0, 0)) @@ (2 :> Row(2, 0, 0, 0)),
       images |-> <<>>, album_seq |-> 2, image_seq |-> 0] }

\* a stored database with three albums, the second one holding an image
ThreeAlbums ==
    [albums |-> (1 :> Row(1, 0, 0, 0)) @@ (2 :> Row(2, 0, 0, 0))
                   @@ (3 :> Row(MaxNames + 1, 0, 0, 0)),
     images |-> (1 :> 2), album_seq |-> 3, image_seq |-> 1]

\* the program before AlbumManager is constructed, on one of the stores dbs
AlbumInitOn(dbs) ==
    /\ \E db \in dbs :
          /\ albums = db.albums
          /\ images = db.images
          /\ album_seq = db.album_seq
          /\ image_seq = db.image_seq
    /\ now = 0
    /\ constructed = FALSE
    /\ album_list = <<>>
    /\ currentRow = 0
    /\ current_album_id = None
    /\ current_album_label = NoName
    /\ create_time_label = 0
    /\ modify_time_label = 0
    /\ image_count_label = 0
    /\ notes_edit = 0
    /\ grid = {}
    /\ selected = {}
    /\ dialog = "none"
    /\ last = [op |-> "none"]
    /\ commits = <<>>

AlbumInit == AlbumInitOn(InitDBs)

\* AlbumManager.__init__: load_albums, apply_current_theme, then the resets
Construct ==
    /\ ~constructed
    /\ constructed' = TRUE
    /\ album_list' = get_all_albums(albums, album_seq)
    /\ IF Len(album_list') > 0
       THEN /\ currentRow' = 1
            /\ select_album_panel(album_list'[1], albums, images)
       ELSE UNCHANGED <<currentRow, detailvars, grid, selected>>
    /\ current_album_id' = None
    /\ dialog' = "none"
    /\ last' = [op |-> "init"]
    /\ commits' = initialize_database_commits
    /\ UNCHANGED dbvars
    /\ UNCHANGED trainvars

\* show_album_images(album_id): rebuild the grid, clearing the selection
show_album_images(album_id, imgs) ==
    /\ grid' = get_images(imgs, album_id)
    /\ selected' = {}

\* add_album: QInputDialog.getText returned (name, ok)
add_album(name, ok) ==
    /\ constructed
    /\ now < MaxClock
    /\ album_seq < MaxAlbumId
    /\ commits' = IF ok /\ name # NoName
                  THEN create_album_commits(albums, album_seq, name) ELSE <<>>
    /\ IF ok /\ name # NoName
       THEN LET id == create_album_result(albums, album_seq, name)
                albs == create_album_rows(albums, album_seq, name, now + 1)
            IN  /\ now' = now + 1
                /\ last' = [op |-> "add_album", name |-> name, result |-> id]
                /\ IF id = None
                   THEN /\ dialog' = "name_exists"
                        /\ UNCHANGED <<albums, images, album_seq, image_seq, uivars>>
                   ELSE /\ albums' = albs
                        /\ album_seq' = id
                        /\ album_list' = Append(album_list, [text |-> name, id |-> id])
                        /\ currentRow' = Len(album_list')
                        /\ current_album_id' = id
                        /\ select_album_panel([text |-> name, id |-> id], albs, images)
                        /\ dialog' = "none"
                        /\ UNCHANGED <<images, image_seq, constructed>>
       ELSE /\ dialog' = "none"
            /\ last' = [op |-> "add_album_cancel"]
            /\ UNCHANGED <<dbvars, uivars>>
    /\ UNCHANGED trainvars

\* a selection that always falls back to the first row
next_row_first(row, count) == 1

\* lines 905-906: the row selected after the delete, row if the list still
\* has one, else the last row
next_row(row, count) == IF row > count THEN count ELSE row

\* the list after takeItem(row)
takeItem(list, row) ==
    [i \in 1..(Len(list) - 1) |-> IF i < row THEN list[i] ELSE list[i + 1]]

\* delete_album: the delete button, the question answered by reply
delete_album(reply) ==
    /\ constructed
    /\ commits' = IF currentRow >= 1 /\ reply THEN delete_album_commits ELSE <<>>
    /\ IF currentRow < 1
       THEN /\ dialog' = "select_album_first"
            /\ last' = [op |-> "delete_album_none"]
            /\ UNCHANGED <<dbvars, uivars>>
       ELSE LET item == album_list[currentRow]
                albs == delete_album_rows(albums, item.id)
                imgs == delete_album_images(images, item.id)
                list == takeItem(album_list, currentRow)
                row == next_row(currentRow, Len(list))
            IN  IF reply
                THEN /\ albums' = albs
                     /\ images' = imgs
                     /\ album_list' = list
                     /\ dialog' = "confirm_delete"
                     /\ last' = [op |-> "delete_album", id |-> item.id,
                                 row |-> currentRow,
                                 n |-> get_image_count(images, item.id)]
                     /\ IF Len(list) = 0
                        THEN /\ currentRow' = 0
                             /\ current_album_label' = NoName
                             /\ create_time_label' = 0
                             /\ modify_time_label' = 0
                             /\ image_count_label' = 0
                             /\ notes_edit' = 0
                             /\ grid' = {}
                             /\ selected' = {}
                             /\ UNCHANGED current_album_id
                        ELSE /\ currentRow' = row
                             /\ current_album_id' = list[row].id
                             /\ select_album_panel(list[row], albs, imgs)
                     /\ UNCHANGED <<album_seq, image_seq, now, constructed>>
                ELSE /\ dialog' = "confirm_delete"
                     /\ last' = [op |-> "delete_album_no"]
                     /\ UNCHANGED <<dbvars, uivars>>
    /\ UNCHANGED trainvars

\* itemClicked on list row: Qt makes the row current, then select_album(item)
click_album(row) ==
    /\ constructed
    /\ row \in 1..Len(album_list)
    /\ currentRow' = row
    /\ current_album_id' = album_list[row].id
    /\ select_album_panel(album_list[row], albums, images)
    /\ dialog' = "none"
    /\ last' = [op |-> "select_album", row |-> row]
    /\ commits' = <<>>
    /\ UNCHANGED <<dbvars, constructed, album_list>>
    /\ UNCHANGED trainvars

\* ImageWidget.mousePressEvent
click_image(i) ==
    /\ constructed
    /\ i \in grid
    /\ selected' = IF i \in selected THEN selected \ {i} ELSE selected \cup {i}
    /\ dialog' = "none"
    /\ last' = [op |-> "click_image"]
    /\ commits' = <<>>
    /\ UNCHANGED <<dbvars, constructed, album_list, currentRow, current_album_id,
                   detailvars, grid>>
    /\ UNCHANGED trainvars

\* add_image: QFileDialog.getOpenFileNames returned n files
add_image(n) ==
    /\ constructed
    /\ commits' = IF current_album_id # None /\ n > 0
                  THEN add_image_commits(n) \o update_album_modify_time_commits
                  ELSE <<>>
    /\ IF current_album_id = None
       THEN /\ dialog' = "select_album_first"
            /\ last' = [op |-> "add_image_none"]
            /\ UNCHANGED <<dbvars, uivars>>
       ELSE IF n > 0
       THEN LET imgs == add_images(images, image_seq, current_album_id, n)
            IN  /\ now < MaxClock
                /\ image_seq + n <= MaxImageId
                /\ images' = imgs
                /\ image_seq' = image_seq + n
                /\ now' = now + 1
                /\ albums' = update_album_modify_time(albums, current_album_id, now + 1)
                /\ image_count_label' = get_image_count(imgs, current_album_id)
                /\ show_album_images(current_album_id, imgs)
                /\ dialog' = "none"
                /\ last' = [op |-> "add_image", id |-> current_album_id, n |-> n]
                /\ UNCHANGED <<album_seq, constructed, album_list, currentRow,
                               current_album_id, current_album_label,
                               create_time_label, modify_time_label, notes_edit>>
       ELSE /\ dialog' = "none"
            /\ last' = [op |-> "add_image_cancel"]
            /\ UNCHANGED <<dbvars, uivars>>
    /\ UNCHANGED trainvars

\* delete_image: the selected widgets of the grid, the question answered by reply
delete_image(reply) ==
    /\ constructed
    /\ commits' = IF current_album_id # None /\ selected # {} /\ reply
                  THEN delete_image_commits(Cardinality(selected))
                          \o update_album_modify_time_commits
                  ELSE <<>>
    /\ IF current_album_id = None
       THEN /\ dialog' = "select_album_first"
            /\ last' = [op |-> "delete_image_none"]
            /\ UNCHANGED <<dbvars, uivars>>
       ELSE IF selected = {}
       THEN /\ dialog' = "select_image_first"
            /\ last' = [op |-> "delete_image_empty"]
            /\ UNCHANGED <<dbvars, uivars>>
       ELSE IF reply
       THEN LET imgs == delete_images(images, selected)
            IN  /\ now < MaxClock
                /\ images' = imgs
                /\ now' = now + 1
                /\ albums' = update_album_modify_time(albums, current_album_id, now + 1)
                /\ image_count_label' = get_image_count(imgs, current_album_id)
                /\ show_album_images(current_album_id, imgs)
                /\ dialog' = "confirm_delete"
                /\ last' = [op |-> "delete_image", id |-> current_album_id]
                /\ UNCHANGED <<album_seq, image_seq, constructed, album_list,
                               currentRow, current_album_id, current_album_label,
                               create_time_label, modify_time_label, notes_edit>>
       ELSE /\ dialog' = "confirm_delete"
            /\ last' = [op |-> "delete_image_no"]
            /\ UNCHANGED <<dbvars, uivars>>
    /\ UNCHANGED trainvars

\* the user types into the notes field
edit_notes(text) ==
    /\ constructed
    /\ text # notes_edit
    /\ notes_edit' = text
    /\ dialog' = "none"
    /\ last' = [op |-> "edit_notes"]
    /\ commits' = <<>>
    /\ UNCHANGED <<dbvars, constructed, album_list, currentRow, current_album_id,
                   current_album_label, create_time_label, modify_time_label,
                   image_count_label, grid, selected>>
    /\ UNCHANGED trainvars

\* save_notes
save_notes ==
    /\ constructed
    /\ commits' = IF current_album_id # None THEN update_album_notes_commits ELSE <<>>
    /\ dialog' = "none"
    /\ IF current_album_id = None
       THEN /\ last' = [op |-> "save_notes_none"]
            /\ UNCHANGED <<dbvars, uivars>>
       ELSE LET albs == update_album_notes(albums, current_album_id, notes_edit, now + 1)
            IN  /\ now < MaxClock
                /\ now' = now + 1
                /\ albums' = albs
                /\ modify_time_label' =
                      IF current_album_id \in DOMAIN albs
                      THEN albs[current_album_id].modify_time
                      ELSE modify_time_label
                /\ last' = [op |-> "save_notes", id |-> current_album_id]
                /\ UNCHANGED <<images, album_seq, image_seq, constructed, album_list,
                               currentRow, current_album_id, current_album_label,
                               create_time_label, image_count_label, notes_edit,
                               grid, selected>>
    /\ UNCHANGED trainvars

\* toggle_theme: apply_current_theme redraws the images of the current album
toggle_theme ==
    /\ constructed
    /\ dialog' = "none"
    /\ last' = [op |-> "toggle_theme"]
    /\ commits' = <<>>
    /\ IF current_album_id # None
       THEN show_album_images(current_album_id, images)
       ELSE UNCHANGED <<grid, selected>>
    /\ UNCHANGED <<dbvars, constructed, album_list, currentRow, current_album_id,
                   detailvars>>
    /\ UNCHANGED trainvars

\* export_album: copies files, changes nothing in the store or the window
export_album ==
    /\ constructed
    /\ dialog' = IF current_album_id = None THEN "select_album_first"
                 ELSE IF current_album_id \notin DOMAIN albums THEN "none"
                 ELSE "export_done"
    /\ last' = [op |-> "export_album", id |-> current_album_id]
    /\ commits' = <<>>
    /\ UNCHANGED <<dbvars, uivars>>
    /\ UNCHANGED trainvars

\* show_album_context_menu on list row (the right click makes the row current
\* in Qt, without itemClicked), then rename_album(album_id, old_name) with
\* QInputDialog.getText returning (new_name, ok)
rename_album(row, new_name, ok) ==
    /\ constructed
    /\ row \in 1..Len(album_list)
    /\ currentRow' = row
    /\ LET album_id == album_list[row].id
           old_name == album_list[row].text
       IN  IF ok /\ new_name # NoName /\ new_name # old_name
           THEN /\ commits' = rename_commits(albums, album_id, new_name)
                /\ now < MaxClock
                /\ now' = now + 1
                /\ IF UniqueName(albums, album_id, new_name)
                   THEN /\ albums' = rename_rows(albums, album_id, new_name, now + 1)
                        /\ album_list' = [album_list EXCEPT ![row].text = new_name]
                        /\ current_album_label' = new_name
                        /\ dialog' = "none"
                        /\ last' = [op |-> "rename_album", id |-> album_id,
                                    name |-> new_name, result |-> TRUE]
                   ELSE /\ dialog' = "name_exists"
                        /\ last' = [op |-> "rename_album", id |-> album_id,
                                    name |-> new_name, result |-> FALSE]
                        /\ UNCHANGED <<albums, album_list, current_album_label>>
                /\ UNCHANGED <<images, album_seq, image_seq, constructed,
                               current_album_id, create_time_label,
                               modify_time_label, image_count_label, notes_edit,
                               grid, selected>>
           ELSE /\ dialog' = "none"
                /\ commits' = <<>>
                /\ last' = [op |-> "rename_album_cancel"]
                /\ UNCHANGED <<dbvars, constructed, album_list, current_album_id,
                               detailvars, grid, selected>>
    /\ UNCHANGED trainvars

AlbumNext ==
    \/ Construct
    \/ \E name \in Names \cup {NoName}, ok \in BOOLEAN : add_album(name, ok)
    \/ \E reply \in BOOLEAN : delete_album(reply)
    \/ \E row \in 1..MaxAlbumId : click_album(row)
    \/ \E i \in 1..MaxImageId : click_image(i)
    \/ \E n \in 0..MaxFiles : add_image(n)
    \/ \E reply \in BOOLEAN : delete_image(reply)
    \/ \E text \in 0..MaxNotes : edit_notes(text)
    \/ save_notes
    \/ toggle_theme
    \/ export_album
    \/ \E row \in 1..MaxAlbumId, name \in Names \cup {NoName}, ok \in BOOLEAN :
          rename_album(row, name, ok)


----------------------------------------------------------------------------
(* PySide6 training launcher: bounds and data *)

MaxRuns == 2
MaxRestarts == 3
MaxLines == 1
MaxLogLines == 2
MaxLog == 3
MaxPaths == 2

Killed == 9
ExitCodes == {0, 1}
Platforms == {"nt", "posix"}

\* the texts of a path field; NoPath is the empty text, also what a cancelled
\* file dialog returns
NoPath == 0
Paths == 1..MaxPaths

FieldOrder == <<"yolov5_root", "venv_python", "data_yaml">>
Fields == {FieldOrder[i] : i \in 1..3}

\* what the file system says about the three configured paths: exists is
\* path.exists(); rule is train.py inside the root, 'python' in the file
\* name, a .yaml or .yml suffix
PathInputs ==
    {f \in [Fields -> [exists : BOOLEAN, rule : BOOLEAN]] :
        f["yolov5_root"].rule => f["yolov5_root"].exists}

Entry(kind, run, n) == [kind |-> kind, run |-> run, n |-> n]
Posted(sig, run, arg) == [sig |-> sig, run |-> run, arg |-> arg]

NewThread ==
    [pc |-> "run", running |-> TRUE, process |-> FALSE, emitted |-> <<>>]
NewProc ==
    [state |-> "none", returncode |-> 0, written |-> 0, read |-> 0,
     closed |-> FALSE, interrupted |-> FALSE, killed |-> FALSE,
     kill_first |-> FALSE, new_group |-> FALSE]

\* a TrainThread and Popen pair that start_training has dropped: the run is
\* over and its subprocess has exited
DroppedThread ==
    [pc |-> "done", running |-> FALSE, process |-> FALSE, emitted |-> <<>>]
DroppedProc ==
    [state |-> "dropped", returncode |-> 0, written |-> 0, read |-> 0,
     closed |-> FALSE, interrupted |-> FALSE, killed |-> FALSE,
     kill_first |-> FALSE, new_group |-> FALSE]

Runs == 1..Len(threads)
isRunning(t) == threads[t].pc # "done"
poll_is_None(t) == procs[t].state = "alive"

\* a wait() that gives up at once
thread_wait_timeout(t) == TRUE

\* QThread.wait() without a timeout returns once the thread has finished
thread_wait(t) == ~isRunning(t)

\* the process group of the subprocess of run r: its own group when Popen was
\* given CREATE_NEW_PROCESS_GROUP, else the group it inherits from the launcher
getpgid(ps, r) ==
    IF ps[r].new_group THEN <<"subprocess", r>> ELSE <<"launcher">>

\* is the launcher process a member of process group g
launcher_in(g) == g = <<"launcher">>

\* GenerateConsoleCtrlEvent(0, pid) and os.killpg(pgid, SIGINT): the interrupt
\* goes to every live subprocess of group g
killpg(ps, g) ==
    [r \in 1..Len(ps) |->
        IF ps[r].state = "alive" /\ getpgid(ps, r) = g
        THEN [ps[r] EXCEPT !.interrupted = TRUE] ELSE ps[r]]

TrainInit ==
    /\ train_btn = TRUE
    /\ stop_btn = FALSE
    /\ log_output = <<>>
    /\ train_thread = None
    /\ threads = <<>>
    /\ procs = <<>>
    /\ queue = <<>>
    /\ timer = 0
    /\ ui_pc = "idle"
    /\ message_box = "none"
    /\ tlast = [op |-> "none"]
    /\ line_edit = FieldOrder[Len(FieldOrder)]
    /\ launcher_sigint = FALSE

----------------------------------------------------------------------------
(* TrainThread.run and the training subprocess *)

\* one terminal emission of run r: the signal is posted to the UI thread and
\* the finally clause clears _running
emit_terminal(r, sig, reason) ==
    /\ queue' = Append(queue, Posted(sig, r, reason))
    /\ threads' = [threads EXCEPT ![r].pc = "emitted", ![r].running = FALSE,
                      ![r].emitted = Append(@, [sig |-> sig, reason |-> reason])]

\* lines 30-46: subprocess.Popen, which may raise; the subprocess gets a
\* process group of its own on Windows only
run_spawn(r, ok) ==
    /\ r \in Runs
    /\ ui_pc # "closed"
    /\ threads[r].pc = "run"
    /\ IF ok
       THEN /\ threads' = [threads EXCEPT ![r].pc = "read", ![r].running = TRUE,
                              ![r].process = TRUE]
            /\ procs' = [procs EXCEPT ![r].state = "alive",
                                      ![r].new_group = (os_name = "nt")]
            /\ UNCHANGED queue
       ELSE /\ emit_terminal(r, "error_occurred", "runtime_error")
            /\ UNCHANGED procs
    /\ tlast' = [op |-> "run_spawn", run |-> r, ok |-> ok]
    /\ UNCHANGED <<train_btn, stop_btn, log_output, train_thread, timer, ui_pc,
                   message_box>>
    /\ UNCHANGED <<albumvars, pathvars, envvars>>

\* a readline that returns the newest line of the pipe
readline_newest(p) == p.written

\* stdout.readline(): the number of the first line not read yet
readline(p) == p.read + 1

\* lines 48-50: one readline of the first loop; at end of file line 50
run_read(r) ==
    /\ r \in Runs
    /\ ui_pc # "closed"
    /\ threads[r].pc = "read"
    /\ IF procs[r].closed
       THEN /\ emit_terminal(r, "error_occurred", "closed_file")
            /\ UNCHANGED procs
       ELSE IF procs[r].read < procs[r].written
       THEN /\ queue' = Append(queue, Posted("update_log", r, readline(procs[r])))
            /\ procs' = [procs EXCEPT ![r].read = readline(procs[r])]
            /\ UNCHANGED threads
       ELSE /\ procs[r].state = "exited"
            /\ threads' = [threads EXCEPT ![r].pc = "wait", ![r].running = TRUE]
            /\ UNCHANGED <<procs, queue>>
    /\ tlast' = [op |-> "run_read", run |-> r]
    /\ UNCHANGED <<train_btn, stop_btn, log_output, train_thread, timer, ui_pc,
                   message_box>>
    /\ UNCHANGED <<albumvars, pathvars, envvars>>

\* a run that reports success whatever the return code
terminal_signal_ignores_code(running, closed, returncode) ==
    IF running /\ closed
    THEN [sig |-> "error_occurred", reason |-> "closed_file"]
    ELSE [sig |-> "finished", reason |-> "ok"]

\* lines 51-65: the signal a run ends with once the first loop is over: the
\* readline of the second loop raises on a closed file, else the return code
\* decides
terminal_signal(running, closed, returncode) ==
    IF running /\ closed
    THEN [sig |-> "error_occurred", reason |-> "closed_file"]
    ELSE IF returncode # 0
    THEN [sig |-> "error_occurred", reason |-> "returncode"]
    ELSE [sig |-> "finished", reason |-> "ok"]

\* lines 51-67: the second loop (at end of file), process.wait() and the
\* terminal signal
run_finish(r) ==
    /\ r \in Runs
    /\ ui_pc # "closed"
    /\ threads[r].pc = "wait"
    /\ LET t == terminal_signal(threads[r].running, procs[r].closed,
                                procs[r].returncode)
       IN  emit_terminal(r, t.sig, t.reason)
    /\ tlast' = [op |-> "run_finish", run |-> r]
    /\ UNCHANGED <<train_btn, stop_btn, log_output, train_thread, procs, timer,
                   ui_pc, message_box>>
    /\ UNCHANGED <<albumvars, pathvars, envvars>>

\* run() has returned: the thread is no longer running
run_return(r) ==
    /\ r \in Runs
    /\ ui_pc # "closed"
    /\ threads[r].pc = "emitted"
    /\ threads' = [threads EXCEPT ![r].pc = "done"]
    /\ tlast' = [op |-> "run_return", run |-> r]
    /\ UNCHANGED <<train_btn, stop_btn, log_output, train_thread, procs, queue,
                   timer, ui_pc, message_box>>
    /\ UNCHANGED <<albumvars, pathvars, envvars>>

\* the subprocess writes one line to its combined stdout/stderr
proc_write(r, lines) ==
    /\ r \in Runs
    /\ procs[r].state = "alive"
    /\ ~procs[r].closed
    /\ procs[r].written < lines
    /\ procs' = [procs EXCEPT ![r].written = @ + 1]
    /\ tlast' = [op |-> "proc_write", run |-> r]
    /\ UNCHANGED <<train_btn, stop_btn, log_output, train_thread, threads, queue,
                   timer, ui_pc, message_box>>
    /\ UNCHANGED <<albumvars, pathvars, envvars>>

\* the subprocess exits by itself (also its reaction to an interrupt)
proc_exit(r, code) ==
    /\ r \in Runs
    /\ procs[r].state = "alive"
    /\ procs' = [procs EXCEPT ![r].state = "exited", ![r].returncode = code]
    /\ tlast' = [op |-> "proc_exit", run |-> r, code |-> code]
    /\ UNCHANGED <<train_btn, stop_btn, log_output, train_thread, threads, queue,
                   timer, ui_pc, message_box>>
    /\ UNCHANGED <<albumvars, pathvars, envvars>>

\* process.kill(): a signal is sent only while no return code is known
kill(ps, t) ==
    IF ps[t].state = "alive"
    THEN [ps EXCEPT ![t].state = "exited", ![t].returncode = Killed,
                    ![t].killed = TRUE, ![t].kill_first = ~ps[t].interrupted]
    ELSE ps

----------------------------------------------------------------------------
(* YOLOTrainer *)

\* a validator that only looks at the existence of the path
validator_exists_only(f, p) == p.exists

\* the three lambdas of path_checks
validator(f, p) ==
    IF f = "yolov5_root" THEN p.rule ELSE p.exists /\ p.rule

path_check(paths, f) ==
    IF ~paths[f].exists THEN <<[field |-> f, error |-> "missing"]>>
    ELSE IF ~validator(f, paths[f]) THEN <<[field |-> f, error |-> "invalid"]>>
    ELSE <<>>

validate_paths(paths) ==
    path_check(paths, FieldOrder[1]) \o path_check(paths, FieldOrder[2])
        \o path_check(paths, FieldOrder[3])

\* the paths start_training is tried on: at most one field at fault
StartInputs ==
    {f \in PathInputs :
        Cardinality({x \in Fields : ~(f[x].exists /\ f[x].rule)}) <= 1}

Collectable(r) ==
    /\ threads[r].pc = "done"
    /\ procs[r].state # "alive"

\* line 277: the assignment drops the previous TrainThread object
drop_threads(ths) ==
    [r \in 1..Len(ths) |-> IF Collectable(r) THEN DroppedThread ELSE ths[r]]

drop_procs(ps) ==
    [r \in 1..Len(ps) |-> IF Collectable(r) THEN DroppedProc ELSE ps[r]]

\* start_training: the start button, with the file system as input
start_training(paths, model_file, weights_file, limit) ==
    /\ ui_pc = "idle"
    /\ train_btn
    /\ LET errors == validate_paths(paths)
           click == [op |-> "start_training",
                     valid |-> \A f \in Fields : paths[f].exists /\ paths[f].rule,
                     model |-> model_file, weights |-> weights_file]
       IN  IF errors # <<>>
           THEN /\ message_box' = "config_error"
                /\ tlast' = click
                /\ UNCHANGED <<train_btn, stop_btn, log_output, train_thread,
                               threads, procs, queue, timer, ui_pc>>
           ELSE IF ~model_file
           THEN /\ message_box' = "model_missing"
                /\ tlast' = click
                /\ UNCHANGED <<train_btn, stop_btn, log_output, train_thread,
                               threads, procs, queue, timer, ui_pc>>
           ELSE IF ~weights_file
           THEN /\ message_box' = "weights_missing"
                /\ tlast' = click
                /\ UNCHANGED <<train_btn, stop_btn, log_output, train_thread,
                               threads, procs, queue, timer, ui_pc>>
           ELSE /\ Len(threads) < limit
                /\ log_output' = <<>>
                /\ threads' = Append(drop_threads(threads), NewThread)
                /\ procs' = Append(drop_procs(procs), NewProc)
                /\ train_thread' = Len(threads) + 1
                /\ train_btn' = FALSE
                /\ stop_btn' = TRUE
                /\ message_box' = "none"
                /\ tlast' = click
                /\ UNCHANGED <<queue, timer, ui_pc>>
    /\ UNCHANGED <<albumvars, pathvars, envvars>>

\* start_training of the PyQt5 launcher (src/pyqy_yolo5.py), whose
\* validate_paths has the same three checks in the same order: it has no
\* check of the model and weights files
qt5_start_training(paths, limit) ==
    /\ ui_pc = "idle"
    /\ train_btn
    /\ tlast' = [op |-> "qt5_start_training",
                 valid |-> \A f \in Fields : paths[f].exists /\ paths[f].rule]
    /\ IF validate_paths(paths) # <<>>
       THEN /\ message_box' = "config_error"
            /\ UNCHANGED <<train_btn, stop_btn, log_output, train_thread,
                           threads, procs>>
       ELSE /\ Len(threads) < limit
            /\ log_output' = <<>>
            /\ threads' = Append(drop_threads(threads), NewThread)
            /\ procs' = Append(drop_procs(procs), NewProc)
            /\ train_thread' = Len(threads) + 1
            /\ train_btn' = FALSE
            /\ stop_btn' = TRUE
            /\ message_box' = "none"
    /\ UNCHANGED <<queue, timer, ui_pc>>
    /\ UNCHANGED <<albumvars, pathvars, envvars>>

\* validate_paths called on the file system facts paths, with its result
call_validate_paths(paths) ==
    /\ ui_pc = "idle"
    /\ tlast' = [op |-> "validate_paths", paths |-> paths,
                 errors |-> validate_paths(paths)]
    /\ UNCHANGED <<train_btn, stop_btn, log_output, train_thread, threads, procs,
                   queue, timer, ui_pc, message_box>>
    /\ UNCHANGED <<albumvars, pathvars, envvars>>

\* stop_training: the stop button
stop_training ==
    /\ ui_pc = "idle"
    /\ stop_btn
    /\ Len(log_output) < MaxLog
    /\ message_box' = "none"
    /\ IF train_thread # None /\ isRunning(train_thread)
       THEN /\ stop_btn' = FALSE
            /\ log_output' = Append(log_output, Entry("stop_requested", 0, 0))
            /\ timer' = timer + 1
            /\ tlast' = [op |-> "stop_training", run |-> train_thread]
       ELSE /\ tlast' = [op |-> "stop_ignored"]
            /\ UNCHANGED <<stop_btn, log_output, timer>>
    /\ UNCHANGED <<train_btn, train_thread, threads, procs, queue, ui_pc>>
    /\ UNCHANGED <<albumvars, pathvars, envvars>>

\* _safe_stop_training reaches send_ctrl_c, lines 71-79: the flag, then the
\* interrupt if the process exists and has not exited. When the launcher is in
\* the signalled group it gets SIGINT itself: Python then raises
\* KeyboardInterrupt in the UI thread (raised), which passes the except
\* clause of _safe_stop_training and runs its finally clause, unless SIGINT
\* was ignored when the launcher was started
send_ctrl_c_interrupt ==
    /\ ui_pc = "idle"
    /\ timer > 0
    /\ timer' = timer - 1
    /\ LET t == train_thread
           g == getpgid(procs, t)
       IN  /\ threads' = [threads EXCEPT ![t].running = FALSE]
           /\ IF threads[t].process /\ poll_is_None(t)
              THEN /\ procs' = killpg(procs, g)
                   /\ launcher_sigint' = (launcher_sigint \/ launcher_in(g))
                   /\ \E raised \in BOOLEAN :
                         /\ raised => launcher_in(g)
                         /\ IF raised
                            THEN /\ ui_pc' = "idle"
                                 /\ stop_btn' = TRUE
                                 /\ tlast' = [op |-> "keyboard_interrupt", run |-> t]
                            ELSE /\ ui_pc' = "wait80"
                                 /\ tlast' = [op |-> "send_ctrl_c", run |-> t]
                                 /\ UNCHANGED stop_btn
              ELSE /\ ui_pc' = "loop82"
                   /\ tlast' = [op |-> "send_ctrl_c", run |-> t]
                   /\ UNCHANGED <<procs, launcher_sigint, stop_btn>>
    /\ message_box' = "none"
    /\ UNCHANGED <<train_btn, log_output, train_thread, queue>>
    /\ UNCHANGED <<albumvars, pathvars, os_name>>

\* line 80: self.wait(1000) returns, the thread finished or the second over
send_ctrl_c_wait ==
    /\ ui_pc = "wait80"
    /\ ui_pc' = "loop82"
    /\ tlast' = [op |-> "wait80", run |-> train_thread]
    /\ UNCHANGED <<train_btn, stop_btn, log_output, train_thread, threads, procs,
                   queue, timer, message_box>>
    /\ UNCHANGED <<albumvars, pathvars, envvars>>

\* lines 82-83: the polling loop ends (exit or three seconds), or
\* self.process is still None and the handler of _safe_stop_training runs
send_ctrl_c_loop ==
    /\ ui_pc = "loop82"
    /\ IF ~threads[train_thread].process
       THEN /\ log_output' = Append(log_output, Entry("stop_failed", 0, 0))
            /\ stop_btn' = TRUE
            /\ ui_pc' = "idle"
            /\ tlast' = [op |-> "stop_failed", run |-> train_thread]
       ELSE /\ ui_pc' = "kill84"
            /\ tlast' = [op |-> "loop82", run |-> train_thread]
            /\ UNCHANGED <<log_output, stop_btn>>
    /\ UNCHANGED <<train_btn, train_thread, threads, procs, queue, timer,
                   message_box>>
    /\ UNCHANGED <<albumvars, pathvars, envvars>>

\* lines 84-85: the forced kill of send_ctrl_c
send_ctrl_c_kill ==
    /\ ui_pc = "kill84"
    /\ procs' = kill(procs, train_thread)
    /\ ui_pc' = "check301"
    /\ tlast' = [op |-> "kill84", run |-> train_thread]
    /\ UNCHANGED <<train_btn, stop_btn, log_output, train_thread, threads, queue,
                   timer, message_box>>
    /\ UNCHANGED <<albumvars, pathvars, envvars>>

\* the part of training_finished before its self.train_thread.wait():
\* stdout is closed, stderr (None) raises into the bare except
training_finished_close(ps) ==
    IF train_thread # None /\ threads[train_thread].process
    THEN [ps EXCEPT ![train_thread].closed = TRUE]
    ELSE ps

\* lines 301-306: the check after send_ctrl_c and the second kill
safe_stop_check ==
    /\ ui_pc = "check301"
    /\ IF isRunning(train_thread)
       THEN /\ log_output' = Append(log_output, Entry("force_kill", 0, 0))
            /\ procs' = kill(procs, train_thread)
            /\ ui_pc' = "wait304"
       ELSE /\ procs' = training_finished_close(procs)
            /\ ui_pc' = "finish_stop"
            /\ UNCHANGED log_output
    /\ tlast' = [op |-> "check301", run |-> train_thread]
    /\ UNCHANGED <<train_btn, stop_btn, train_thread, threads, queue, timer,
                   message_box>>
    /\ UNCHANGED <<albumvars, pathvars, envvars>>

\* line 304: wait(1000) returns, then training_finished starts
safe_stop_wait ==
    /\ ui_pc = "wait304"
    /\ procs' = training_finished_close(procs)
    /\ ui_pc' = "finish_stop"
    /\ tlast' = [op |-> "wait304", run |-> train_thread]
    /\ UNCHANGED <<train_btn, stop_btn, log_output, train_thread, threads, queue,
                   timer, message_box>>
    /\ UNCHANGED <<albumvars, pathvars, envvars>>

\* training_finished after its wait(), which returns once the thread has
\* finished; called from _safe_stop_training the finally clause follows
training_finished_end ==
    /\ ui_pc \in {"finish_stop", "finish_signal"}
    /\ train_thread # None => thread_wait(train_thread)
    /\ train_btn' = TRUE
    /\ stop_btn' = (ui_pc = "finish_stop")
    /\ log_output' = Append(log_output, Entry("stopped", 0, 0))
    /\ ui_pc' = "idle"
    /\ tlast' = [op |-> "training_finished", from |-> ui_pc]
    /\ UNCHANGED <<train_thread, threads, procs, queue, timer, message_box>>
    /\ UNCHANGED <<albumvars, pathvars, envvars>>

\* the oldest posted worker signal is delivered to its slot
deliver ==
    /\ ui_pc = "idle"
    /\ queue # <<>>
    /\ queue' = Tail(queue)
    /\ LET ev == Head(queue)
       IN  /\ tlast' = [op |-> "deliver", sig |-> ev.sig, run |-> ev.run,
                        arg |-> ev.arg]
           /\ IF ev.sig = "update_log"
              THEN /\ log_output' = Append(log_output, Entry("line", ev.run, ev.arg))
                   /\ message_box' = "none"
                   /\ UNCHANGED <<procs, ui_pc>>
              ELSE /\ message_box' = IF ev.sig = "error_occurred"
                                     THEN "train_error" ELSE "none"
                   /\ procs' = training_finished_close(procs)
                   /\ ui_pc' = "finish_signal"
                   /\ UNCHANGED log_output
    /\ UNCHANGED <<train_btn, stop_btn, train_thread, threads, timer>>
    /\ UNCHANGED <<albumvars, pathvars, envvars>>

\* closeEvent: the window is asked to close; reply answers the question shown
\* while a training thread is running. An accepted close ends the event loop
\* and with it the launcher
closeEvent(reply) ==
    /\ ui_pc = "idle"
    /\ Len(log_output) < MaxLog
    /\ message_box' = "none"
    /\ IF train_thread # None /\ isRunning(train_thread)
       THEN IF reply
            THEN /\ stop_btn' = FALSE
                 /\ log_output' = Append(log_output, Entry("stop_requested", 0, 0))
                 /\ timer' = timer + 1
                 /\ ui_pc' = "closed"
                 /\ tlast' = [op |-> "closeEvent", running |-> TRUE,
                              accepted |-> TRUE]
            ELSE /\ tlast' = [op |-> "closeEvent", running |-> TRUE,
                              accepted |-> FALSE]
                 /\ UNCHANGED <<stop_btn, log_output, timer, ui_pc>>
       ELSE /\ ui_pc' = "closed"
            /\ tlast' = [op |-> "closeEvent", running |-> FALSE,
                         accepted |-> TRUE]
            /\ UNCHANGED <<stop_btn, log_output, timer>>
    /\ UNCHANGED <<train_btn, train_thread, threads, procs, queue>>
    /\ UNCHANGED <<albumvars, pathvars, envvars>>

\* the browse button of a path group: the lambda of create_path_group calls
\* select_path(self.line_edit, ...), and the dialog returns path (NoPath when
\* it is cancelled)
select_path(group, path) ==
    /\ ui_pc = "idle"
    /\ line_edits' = IF path # NoPath
                     THEN [line_edits EXCEPT ![line_edit] = path]
                     ELSE line_edits
    /\ message_box' = "none"
    /\ tlast' = [op |-> "select_path", group |-> group, path |-> path]
    /\ UNCHANGED <<train_btn, stop_btn, log_output, train_thread, threads, procs,
                   queue, timer, ui_pc, line_edit>>
    /\ UNCHANGED <<albumvars, envvars>>

\* the user types text into the QLineEdit of a path group
edit_path(group, text) ==
    /\ ui_pc = "idle"
    /\ line_edits[group] # text
    /\ line_edits' = [line_edits EXCEPT ![group] = text]
    /\ message_box' = "none"
    /\ tlast' = [op |-> "edit_path", group |-> group, path |-> text]
    /\ UNCHANGED <<train_btn, stop_btn, log_output, train_thread, threads, procs,
                   queue, timer, ui_pc, line_edit>>
    /\ UNCHANGED <<albumvars, envvars>>

TrainNext ==
    \/ \E paths \in StartInputs, m \in BOOLEAN, w \in BOOLEAN :
          start_training(paths, m, w, MaxRuns)
    \/ stop_training
    \/ send_ctrl_c_interrupt
    \/ send_ctrl_c_wait
    \/ send_ctrl_c_loop
    \/ send_ctrl_c_kill
    \/ safe_stop_check
    \/ safe_stop_wait
    \/ training_finished_end
    \/ deliver
    \/ \E r \in 1..MaxRuns, ok \in BOOLEAN : run_spawn(r, ok)
    \/ \E r \in 1..MaxRuns : run_read(r)
    \/ \E r \in 1..MaxRuns : run_finish(r)
    \/ \E r \in 1..MaxRuns : run_return(r)
    \/ \E r \in 1..MaxRuns : proc_write(r, MaxLines)
    \/ \E r \in 1..MaxRuns, code \in ExitCodes : proc_exit(r, code)

----------------------------------------------------------------------------
(* The two programs run separately *)

AlbumIdle ==
    /\ albums = <<>>
    /\ images = <<>>
    /\ album_seq = 0
    /\ image_seq = 0
    /\ now = 0
    /\ constructed = FALSE
    /\ album_list = <<>>
    /\ currentRow = 0
    /\ current_album_id = None
    /\ current_album_label = NoName
    /\ create_time_label = 0
    /\ modify_time_label = 0
    /\ image_count_label = 0
    /\ notes_edit = 0
    /\ grid = {}
    /\ selected = {}
    /\ dialog = "none"
    /\ last = [op |-> "none"]
    /\ commits = <<>>

\* the path fields as load_settings fills them from the stored settings
SavedPaths == [f \in Fields |-> 1]

LauncherIdle ==
    /\ TrainInit
    /\ line_edits = SavedPaths
    /\ os_name = "posix"

Init == AlbumInit /\ LauncherIdle
Next == AlbumNext
Spec == Init /\ [][Next]_vars

\* the album manager started on the store of three albums, which is full:
\* every handler but add_album
DeleteNext ==
    \/ Construct
    \/ \E reply \in BOOLEAN : delete_album(reply)
    \/ \E row \in 1..MaxAlbumId : click_album(row)
    \/ \E i \in 1..MaxImageId : click_image(i)
    \/ \E n \in 0..MaxFiles : add_image(n)
    \/ \E reply \in BOOLEAN : delete_image(reply)
    \/ \E text \in 0..MaxNotes : edit_notes(text)
    \/ save_notes
    \/ toggle_theme
    \/ export_album
    \/ \E row \in 1..MaxAlbumId, name \in Names \cup {NoName}, ok \in BOOLEAN :
          rename_album(row, name, ok)

InitDelete == AlbumInitOn({ThreeAlbums}) /\ LauncherIdle
SpecDelete == InitDelete /\ [][DeleteNext]_vars

\* restarts of the training with valid paths, a subprocess that starts, writes
\* nothing and ends with a non-zero code
OkPaths == [f \in Fields |-> [exists |-> TRUE, rule |-> TRUE]]

RestartNext ==
    \/ start_training(OkPaths, TRUE, TRUE, MaxRestarts)
    \/ stop_training
    \/ send_ctrl_c_interrupt
    \/ send_ctrl_c_wait
    \/ send_ctrl_c_loop
    \/ send_ctrl_c_kill
    \/ safe_stop_check
    \/ safe_stop_wait
    \/ training_finished_end
    \/ deliver
    \/ \E r \in 1..MaxRestarts : run_spawn(r, TRUE)
    \/ \E r \in 1..MaxRestarts : run_read(r)
    \/ \E r \in 1..MaxRestarts : run_finish(r)
    \/ \E r \in 1..MaxRestarts : run_return(r)
    \/ \E r \in 1..MaxRestarts : proc_exit(r, 1)

InitTrain ==
    /\ AlbumIdle
    /\ TrainInit
    /\ line_edits = SavedPaths
    /\ os_name = "nt"

\* one training run on either platform, from the start click to the end of
\* the run or the closing of the window
RunNext ==
    \/ start_training(OkPaths, TRUE, TRUE, 1)
    \/ stop_training
    \/ send_ctrl_c_interrupt
    \/ send_ctrl_c_wait
    \/ send_ctrl_c_loop
    \/ send_ctrl_c_kill
    \/ safe_stop_check
    \/ safe_stop_wait
    \/ training_finished_end
    \/ deliver
    \/ \E reply \in BOOLEAN : closeEvent(reply)
    \/ \E ok \in BOOLEAN : run_spawn(1, ok)
    \/ run_read(1)
    \/ run_finish(1)
    \/ run_return(1)
    \/ proc_write(1, MaxLogLines)
    \/ \E code \in ExitCodes : proc_exit(1, code)

InitRun ==
    /\ AlbumIdle
    /\ TrainInit
    /\ line_edits = SavedPaths
    /\ os_name \in Platforms

SpecRun == InitRun /\ [][RunNext]_vars

\* validate_paths on every combination of the path facts, and the start
\* button of either launcher on them
ValidateNext ==
    \/ \E paths \in PathInputs : call_validate_paths(paths)
    \/ \E paths \in PathInputs, m \in BOOLEAN, w \in BOOLEAN :
          start_training(paths, m, w, 1)
    \/ \E paths \in PathInputs : qt5_start_training(paths, 1)

SpecValidate == InitTrain /\ [][ValidateNext]_vars

\* the path fields alone: browsing and typing
PathsNext ==
    \/ \E g \in Fields, path \in Paths \cup {NoPath} : select_path(g, path)
    \/ \E g \in Fields, text \in Paths \cup {NoPath} : edit_path(g, text)

InitPaths ==
    /\ AlbumIdle
    /\ TrainInit
    /\ line_edits \in [Fields -> Paths \cup {NoPath}]
    /\ os_name = "posix"

SpecPaths == InitPaths /\ [][PathsNext]_vars
NextTrain == TrainNext
SpecTrain == InitTrain /\ [][NextTrain]_vars
SpecRestart == InitTrain /\ [][RestartNext]_vars

----------------------------------------------------------------------------
(* Album manager: the stored rows *)

\* C1: every stored image row has an album_id that is the id of an album row
\* that currently exists
C1_ImagesBelongToAlbums ==
    \A i \in DOMAIN images : images[i] \in DOMAIN albums

\* C2: no two stored albums have the same name, whatever create, rename and
\* delete calls were made, the rejected ones included
C2_AlbumNamesUnique ==
    \A i, j \in DOMAIN albums : i # j => albums[i].name # albums[j].name

C2_Witness ==
    /\ last.op = "rename_album"
    /\ last.result = FALSE
    /\ Cardinality(DOMAIN albums) >= 2
    /\ album_seq > Cardinality(DOMAIN albums)

\* C3: after delete_album(id) there is no album row with that id and no image
\* row of that album, and the rows of every other album are as they were
C3_DeleteAlbumCascade ==
    [][last'.op = "delete_album" /\ last' # last =>
          LET id == last'.id
          IN  /\ id \in DOMAIN albums
              /\ id \notin DOMAIN albums'
              /\ \A i \in DOMAIN images' : images'[i] # id
              /\ DOMAIN albums' = DOMAIN albums \ {id}
              /\ \A a \in DOMAIN albums' : albums'[a] = albums[a]
              /\ DOMAIN images' = {i \in DOMAIN images : images[i] # id}
              /\ \A i \in DOMAIN images' : images'[i] = images[i]]_vars

C3_Witness ==
    /\ last.op = "delete_album"
    /\ last.n > 0
    /\ DOMAIN images # {}
    /\ DOMAIN albums # {}

\* C9: adding an album under the name of an existing album is rejected:
\* create_album returns None, the warning is shown, and the album rows, the
\* list entries and the current album stay as they were
C9_DuplicateAddRejected ==
    [][(/\ last'.op = "add_album"
        /\ now' = now + 1
        /\ \E i \in DOMAIN albums : albums[i].name = last'.name) =>
          /\ last'.result = None
          /\ dialog' = "name_exists"
          /\ albums' = albums
          /\ album_seq' = album_seq
          /\ album_list' = album_list
          /\ currentRow' = currentRow
          /\ current_album_id' = current_album_id
          /\ UNCHANGED <<detailvars, grid, selected>>]_vars

C9_Witness ==
    /\ last.op = "add_album"
    /\ last.result = None
    /\ dialog = "name_exists"
    /\ current_album_id # None
    /\ \E i \in DOMAIN albums : albums[i].name = last.name

\* C10: renaming an album to the name of another album is rejected: the
\* warning is shown, and the stored name and modify_time, the text of every
\* list entry and the title of the image area stay as they were
C10_DuplicateRenameRejected ==
    [][(/\ last'.op = "rename_album"
        /\ now' = now + 1
        /\ \E i \in DOMAIN albums : i # last'.id /\ albums[i].name = last'.name) =>
          /\ dialog' = "name_exists"
          /\ albums' = albums
          /\ \A k \in 1..Len(album_list) : album_list'[k].text = album_list[k].text
          /\ Len(album_list') = Len(album_list)
          /\ current_album_label' = current_album_label]_vars

C10_Witness ==
    /\ last.op = "rename_album"
    /\ last.result = FALSE
    /\ dialog = "name_exists"
    /\ last.id \in DOMAIN albums
    /\ albums[last.id].modify_time < now
    /\ \E i \in DOMAIN albums : i # last.id /\ albums[i].name = last.name

\* C19: once the window is constructed, current_album_id is None or the id of
\* an album row that exists, so that add image, delete image, save notes and
\* export never act on an album that is gone
C19_CurrentAlbumExists ==
    constructed => (current_album_id = None \/ current_album_id \in DOMAIN albums)

\* C20: when the program starts on a store with at least one album, the
\* constructed window has the first list entry highlighted, shows its details
\* and images, and has it as the current album
C20_FirstAlbumSelectedAtStartup ==
    (last.op = "init" /\ album_list # <<>>) =>
        /\ currentRow = 1
        /\ current_album_label = albums[album_list[1].id].name
        /\ grid = get_images(images, album_list[1].id)
        /\ current_album_id = album_list[1].id

\* C21: after a confirmed delete of the album at list row r that leaves at
\* least one album, the album now at row r, or at the last row when r was the
\* last row, is the current album: the list is the old list without row r,
\* current_album_id is the id of that album, and the details panel and the
\* image grid show it
C21_DeleteSelectsNeighbour ==
    [][(last'.op = "delete_album" /\ albums' # albums /\ album_list' # <<>>) =>
          LET r == last'.row
              n == Len(album_list')
              row == IF r <= n THEN r ELSE n
              id == album_list'[row].id
          IN  /\ n = Len(album_list) - 1
              /\ \A k \in 1..n :
                    album_list'[k] = album_list[IF k < r THEN k ELSE k + 1]
              /\ currentRow' = row
              /\ current_album_id' = id
              /\ id \in DOMAIN albums'
              /\ current_album_label' = albums'[id].name
              /\ create_time_label' = albums'[id].create_time
              /\ modify_time_label' = albums'[id].modify_time
              /\ notes_edit' = albums'[id].notes
              /\ image_count_label' = Cardinality({i \in DOMAIN images' : images'[i] = id})
              /\ grid' = {i \in DOMAIN images' : images'[i] = id}
              /\ selected' = {}]_vars

C21_Witness ==
    /\ last.op = "delete_album"
    /\ Len(album_list) >= 2
    /\ last.row > Len(album_list)
    /\ currentRow = Len(album_list)
    /\ current_album_id = album_list[currentRow].id
    /\ grid # {}

\* C23 as stated: apart from the schema set-up, every commit covers exactly
\* one data-modifying statement, and no transaction spans several statements
C23_OneStatementPerCommit ==
    \A i \in 1..Len(commits) :
        /\ Len(commits[i]) <= 1
        /\ last.op # "init" => Len(commits[i]) = 1

\* C23 as amended: every commit covers exactly one data-modifying statement,
\* except the single commit of delete_album, whose transaction spans the
\* DELETE of the album row and the DELETE of its image rows, and the commit of
\* the schema set-up, which covers none
C23_OneStatementPerCommitButDeleteAlbum ==
    /\ last.op = "delete_album" =>
          commits = <<<<"DELETE albums", "DELETE images">>>>
    /\ last.op = "init" => commits = <<<<>>>>
    /\ last.op \notin {"delete_album", "init"} =>
          \A i \in 1..Len(commits) : Len(commits[i]) = 1

C23_Witness ==
    /\ last.op = "delete_album"
    /\ last.n > 0
    /\ Len(commits) = 1
    /\ Len(commits[1]) > 1
    /\ DOMAIN images = {}

----------------------------------------------------------------------------
(* Training launcher: the stop sequence and the worker *)

\* fairness of SpecTrainFair: a posted timer or signal is handled, a timed
\* wait or polling loop ends, an unblocked worker goes on; the user and the
\* subprocess are under no obligation
FairTrain ==
    /\ WF_vars(send_ctrl_c_interrupt)
    /\ WF_vars(send_ctrl_c_wait)
    /\ WF_vars(send_ctrl_c_loop)
    /\ WF_vars(send_ctrl_c_kill)
    /\ WF_vars(safe_stop_check)
    /\ WF_vars(safe_stop_wait)
    /\ WF_vars(training_finished_end)
    /\ WF_vars(deliver)
    /\ \A r \in 1..MaxRuns :
          /\ WF_vars(\E ok \in BOOLEAN : run_spawn(r, ok))
          /\ WF_vars(run_read(r))
          /\ WF_vars(run_finish(r))
          /\ WF_vars(run_return(r))

SpecTrainFair == SpecTrain /\ FairTrain

\* C4: a forced kill reaches the training subprocess only after the
\* cooperative interrupt was sent to it
C4_KillOnlyAfterInterrupt ==
    \A r \in Runs : procs[r].killed => ~procs[r].kill_first

\* C5: a stop requested while the training thread is running leads to a state
\* where the subprocess of that run is no longer running and the start button
\* is enabled
C5_StopLeadsToStopped ==
    (tlast.op = "stop_training") ~>
        (train_btn /\ \A r \in Runs : procs[r].state # "alive")

\* C6: at most one worker thread is running and at most one training
\* subprocess started by the launcher is alive
C6_OneWorkerOneSubprocess ==
    /\ Cardinality({r \in Runs : isRunning(r)}) <= 1
    /\ Cardinality({r \in Runs : procs[r].state = "alive"}) <= 1

\* C7: a run that has ended emitted exactly one terminal signal, a run still
\* going none; the signal is error_occurred if the run raised or the return
\* code is not zero and finished otherwise; a delivered error_occurred raises
\* the error dialog and a delivered finished raises none
C7_OneTerminalSignal ==
    /\ \A r \in Runs : procs[r].state # "dropped" =>
          LET e == threads[r].emitted
          IN  IF threads[r].pc \in {"emitted", "done"}
              THEN /\ Len(e) = 1
                   /\ e[1].sig \in {"error_occurred", "finished"}
                   /\ e[1].sig = "error_occurred" <=>
                         \/ e[1].reason \in {"runtime_error", "closed_file"}
                         \/ procs[r].returncode # 0
                   /\ e[1].sig = "finished" =>
                         procs[r].state = "exited" /\ procs[r].returncode = 0
              ELSE e = <<>>
    /\ tlast.op = "deliver" /\ tlast.sig = "error_occurred" =>
          message_box = "train_error"
    /\ tlast.op = "deliver" /\ tlast.sig = "finished" => message_box = "none"

C7_Witness ==
    \E r \in Runs :
        /\ threads[r].pc = "done"
        /\ Len(threads[r].emitted) = 1
        /\ threads[r].emitted[1].sig = "error_occurred"
        /\ procs[r].returncode = 1
        /\ tlast.op = "deliver"
        /\ tlast.sig = "error_occurred"
        /\ tlast.run = r

\* C8: a start with a path that fails validation, or without the model
\* configuration file or the weights file, shows an error dialog, creates no
\* thread and no subprocess, and leaves the buttons and the log as they were
C8_RejectedStartChangesNothing ==
    [][(/\ tlast'.op = "start_training"
        /\ ~(tlast'.valid /\ tlast'.model /\ tlast'.weights)) =>
          /\ message_box' \in {"config_error", "model_missing", "weights_missing"}
          /\ ~tlast'.valid => message_box' = "config_error"
          /\ threads' = threads
          /\ procs' = procs
          /\ train_thread' = train_thread
          /\ train_btn' = train_btn
          /\ stop_btn' = stop_btn
          /\ log_output' = log_output]_vars

C8_Witness ==
    /\ tlast.op = "start_training"
    /\ ~tlast.valid
    /\ message_box = "config_error"
    /\ log_output # <<>>
    /\ stop_btn
    /\ Len(threads) = 1

----------------------------------------------------------------------------
(* Training launcher: the log, the buttons and the closing of the window *)

C12_StartDisabledWhileRunning ==
    \A r \in Runs : isRunning(r) => ~train_btn

C12_Witness ==
    /\ tlast.op = "deliver"
    /\ tlast.sig \in {"finished", "error_occurred"}
    /\ train_thread # None
    /\ tlast.run < train_thread
    /\ isRunning(train_thread)
    /\ procs[train_thread].closed
    /\ ~train_btn

\* C13: when the UI thread is idle and has no timer and no worker signal left
\* to handle, the stop button is enabled only if a worker thread is running
C13_StopEnabledOnlyWhileRunning ==
    (ui_pc = "idle" /\ queue = <<>> /\ timer = 0 /\ stop_btn) =>
        \E r \in Runs : isRunning(r)

\* C14: once a close requested during training was confirmed and accepted, no
\* training subprocess is alive
C14_NoSubprocessAfterClose ==
    (tlast.op = "closeEvent" /\ tlast.running /\ tlast.accepted) =>
        \A r \in Runs : procs[r].state # "alive"

\* C15: once send_ctrl_c has cleared the running flag of a worker that is in
\* its read loop, that worker emits no further log line
C15_StopFlagEndsReading ==
    [][\A r \in Runs :
          (threads[r].pc = "read" /\ ~threads[r].running) =>
              procs'[r].read = procs[r].read]_vars

\* C16: a run whose subprocess was interrupted and then killed by the stop
\* sequence does not end with the training-error dialog
C16_NoErrorDialogAfterStop ==
    (tlast.op = "deliver" /\ tlast.sig = "error_occurred"
        /\ message_box = "train_error") =>
        ~(procs[tlast.run].interrupted /\ procs[tlast.run].killed)

\* C17: the launcher process never receives the interrupt that send_ctrl_c
\* sends to the process group of the subprocess
C17_LauncherNotInterrupted ==
    ~launcher_sigint

\* C18: a path chosen through the browse button of a group becomes the text of
\* the field of that group, and the fields of the other two groups keep
\* their text
C18_BrowseSetsOwnField ==
    [][(tlast'.op = "select_path" /\ tlast'.path # NoPath) =>
          /\ line_edits'[tlast'.group] = tlast'.path
          /\ \A f \in Fields \ {tlast'.group} : line_edits'[f] = line_edits[f]]_vars

\* C22: validate_paths returns its errors in the order root, Python path,
\* dataset YAML, at most one per field: 'missing' exactly for a path that does
\* not exist and 'invalid' exactly for a path that exists and fails the rule
\* of its field; a start creates a training thread only on paths without
\* error, and a start on paths with an error shows the configuration error
C22_ValidatePathsErrors ==
    [][/\ tlast'.op = "validate_paths" =>
             LET p == tlast'.paths
                 e == tlast'.errors
                 pos(f) == CHOOSE k \in 1..3 : FieldOrder[k] = f
             IN  /\ \A i \in 1..Len(e) : e[i].field \in Fields
                 /\ \A i, j \in 1..Len(e) :
                       i < j => pos(e[i].field) < pos(e[j].field)
                 /\ \A f \in Fields :
                       /\ (\E i \in 1..Len(e) :
                              e[i].field = f /\ e[i].error = "missing")
                             <=> ~p[f].exists
                       /\ (\E i \in 1..Len(e) :
                              e[i].field = f /\ e[i].error = "invalid")
                             <=> (p[f].exists /\ ~p[f].rule)
       /\ Len(threads') > Len(threads) => tlast'.valid
       /\ (tlast'.op \in {"start_training", "qt5_start_training"}
             /\ tlast' # tlast /\ ~tlast'.valid) =>
             (threads' = threads /\ message_box' = "config_error")]_vars

C22_Witness ==
    /\ tlast.op = "validate_paths"
    /\ Len(tlast.errors) = 3
    /\ tlast.errors[1].error = "invalid"
    /\ tlast.errors[2].error = "missing"
    /\ tlast.errors[3].error = "invalid"
    /\ tlast.paths["venv_python"].rule

====
